---- MODULE Spec2Model ----
(***************************************************************************)
(* Model of backend/server.js: the bridge that rebroadcasts MQTT messages  *)
(* to WebSocket clients and answers an HTTP health check.                  *)
(*                                                                         *)
(* Node dispatches every callback of the file as one serialized event, so  *)
(* each handler is one atomic action.  The variables in the first group    *)
(* are the state the handlers read and write (module variables of the      *)
(* file and the state of the mqtt / ws objects it holds).  The variables   *)
(* in the second group describe the event handled by the last step and     *)
(* what that handler produced; every action overwrites all of them.        *)
(***************************************************************************)
EXTENDS Integers, Sequences, FiniteSets, TLC

VARIABLES
    clientCount,     \* let clientCount (line 88)
    clients,         \* wss.clients: ids of the sockets the server tracks
    readyState,      \* ws.readyState of every connection id
    sent,            \* per connection: the ws.send calls issued on it, in order
    mqttConnected,   \* mqttClient.connected
    accepting,       \* the WebSocket server still accepts upgrades
    phase,           \* "running", "ending" (SIGINT handled), "exited"
    shutdownSteps,   \* the steps of the shutdown taken so far, in order
    msgCount,        \* number of broker messages handled so far
    assignedIds,     \* the client ids handed out so far, in order
    exitCode,        \* the codes process.exit was called with (none so far: <<>>)
    lastEvent,       \* which handler ran in the last step
    mqttMsg,         \* the broker message handled by the last step
    wsMessage,       \* the envelope built by the last step
    bcast,           \* what the broadcast loop of the last step did
    subRequests,     \* subscribe requests issued by the last step
    subErrors,       \* the subscribe requests of the last step that failed
    httpReq,         \* the HTTP request handled by the last step
    httpRes,         \* the HTTP response written by the last step
    uncaught         \* an exception left the handler of the last step

vars == <<clientCount, clients, readyState, sent, mqttConnected, accepting,
          phase, shutdownSteps, msgCount, assignedIds, exitCode, lastEvent,
          mqttMsg, wsMessage, bcast, subRequests, subErrors, httpReq, httpRes,
          uncaught>>

----------------------------------------------------------------------------
(* Bounds of the model *)

MaxClients == 2
MaxMsgs == 2

Ids == 1..MaxClients
\* Two readings of the clock (Date.now()).
Times == {"t0", "t1"}

----------------------------------------------------------------------------
(* Configuration.  A topic is the sequence of its levels, i.e. the topic   *)
(* string split at "/".                                                    *)

TEAM_ID == "BACK-BENCHERS"
TOPIC_MOVEMENT == <<"vision", TEAM_ID, "movement">>
TOPIC_HEARTBEAT == <<"vision", TEAM_ID, "heartbeat">>
TOPIC_STATUS == <<"iot", "status", "#">>

\* Topics the broker can deliver under the three subscriptions.  The filter
\* iot/status/# also matches its parent level iot/status.
Topics ==
    { TOPIC_MOVEMENT, TOPIC_HEARTBEAT,
      <<"iot", "status", "sensor7">>, <<"iot", "status">> }

\* Payload texts (message.toString()).
Payloads ==
    { "{\"x\":1,\"y\":2}", "not-json" }

----------------------------------------------------------------------------
(* JSON values: objects, numbers and strings, each tagged with its kind.   *)

JNum(n) == [j |-> "number", n |-> n]
JStr(s) == [j |-> "string", s |-> s]
JObj(members) == [j |-> "object", members |-> members]
JNone == [j |-> "undefined"]

\* JSON.parse on the payload texts: the value, or a SyntaxError.
JsonParse(text) ==
    CASE text = "{\"x\":1,\"y\":2}" ->
            [threw |-> FALSE, value |-> JObj([x |-> JNum(1), y |-> JNum(2)])]
      [] OTHER ->
            [threw |-> TRUE, value |-> JNone]

\* Variant of StartsWithStatus: the topic is compared with the subscription
\* filter itself.
StartsWithStatusExact(topic) == topic = <<"iot", "status", "#">>

\* Variant of StartsWithStatus: the prefix lacks the trailing slash.
StartsWithStatusNoSlash(topic) ==
    /\ Len(topic) >= 2
    /\ topic[1] = "iot"
    /\ topic[2] = "status"

\* topic.startsWith('iot/status/'): the first two levels are iot and status
\* and a third level (possibly empty) follows the second slash.
StartsWithStatus(topic) ==
    /\ Len(topic) >= 3
    /\ topic[1] = "iot"
    /\ topic[2] = "status"

----------------------------------------------------------------------------
(* The try block of the message handler up to the envelope (lines 131-160) *)

NoEnvelope ==
    [built |-> FALSE, type |-> "none", topic |-> <<>>, data |-> JNone,
     received_at |-> "never"]

Envelope(messageType, topic, payload, now) ==
    [built |-> TRUE, type |-> messageType, topic |-> topic, data |-> payload,
     received_at |-> now]

\* Variant of Classify: movement and heartbeat payloads are wrapped as text
\* instead of parsed.
ClassifyNoParse(topic, msgString, now) ==
    IF topic = <<"vision", TEAM_ID, "movement">> THEN
        Envelope("movement", topic, JObj([raw |-> JStr(msgString)]), now)
    ELSE IF topic = <<"vision", TEAM_ID, "heartbeat">> THEN
        Envelope("heartbeat", topic, JObj([raw |-> JStr(msgString)]), now)
    ELSE IF StartsWithStatus(topic) THEN
        Envelope("device_status", topic, JObj([status |-> JStr(msgString)]), now)
    ELSE
        Envelope("unknown", topic, JObj([raw |-> JStr(msgString)]), now)

\* Variant of Classify: a payload that does not parse is degraded to an
\* unknown envelope holding the raw text.
ClassifyDegrade(topic, msgString, now) ==
    IF topic \in {<<"vision", TEAM_ID, "movement">>,
                  <<"vision", TEAM_ID, "heartbeat">>} THEN
        IF JsonParse(msgString).threw
        THEN Envelope("unknown", topic, JObj([raw |-> JStr(msgString)]), now)
        ELSE Envelope(topic[3], topic, JsonParse(msgString).value, now)
    ELSE IF StartsWithStatus(topic) THEN
        Envelope("device_status", topic, JObj([status |-> JStr(msgString)]), now)
    ELSE
        Envelope("unknown", topic, JObj([raw |-> JStr(msgString)]), now)

\* Routing by topic.  A SyntaxError of JSON.parse leaves the try block
\* before the envelope is built.
Classify(topic, msgString, now) ==
    IF topic = TOPIC_MOVEMENT THEN
        IF JsonParse(msgString).threw THEN NoEnvelope
        ELSE Envelope("movement", topic, JsonParse(msgString).value, now)
    ELSE IF topic = TOPIC_HEARTBEAT THEN
        IF JsonParse(msgString).threw THEN NoEnvelope
        ELSE Envelope("heartbeat", topic, JsonParse(msgString).value, now)
    ELSE IF StartsWithStatus(topic) THEN
        Envelope("device_status", topic, JObj([status |-> JStr(msgString)]), now)
    ELSE
        Envelope("unknown", topic, JObj([raw |-> JStr(msgString)]), now)

----------------------------------------------------------------------------
(* The broadcast loop (lines 162-168)                                      *)

\* wss.clients is a Set: forEach visits it in insertion order, which is the
\* order of the ids.
RECURSIVE InsertionOrder(_)
InsertionOrder(S) ==
    IF S = {} THEN <<>>
    ELSE LET m == CHOOSE x \in S : \A y \in S : x <= y
         IN  <<m>> \o InsertionOrder(S \ {m})

\* Variant of IsOpen: every socket the server still tracks is sent to.
IsOpenOrClosing(c) == readyState[c] # "CLOSED"

\* client.readyState === WebSocket.OPEN
IsOpen(c) == readyState[c] = "OPEN"

NoBroadcast ==
    [attempted |-> {}, delivered |-> {}, sentCount |-> 0, threw |-> 0]

\* Variant of ForEachSend: the iteration ends after the first open client.
ForEachSendFirstOnly(order, failing, acc) ==
    LET open == {i \in 1..Len(order) : IsOpen(order[i])} IN
    IF open = {} THEN acc
    ELSE LET first == order[CHOOSE i \in open : \A k \in open : i <= k] IN
         IF first = failing
         THEN [acc EXCEPT !.attempted = {first}, !.threw = first]
         ELSE [acc EXCEPT !.attempted = {first}, !.delivered = {first},
                          !.sentCount = 1]

\* forEach over the clients in order.  failing is the connection whose send
\* raises (0: none); the exception ends the iteration.
RECURSIVE ForEachSend(_, _, _)
ForEachSend(order, failing, acc) ==
    IF order = <<>> THEN acc
    ELSE LET client == Head(order) IN
         IF IsOpen(client) THEN
             IF client = failing THEN
                 [acc EXCEPT !.attempted = @ \cup {client}, !.threw = client]
             ELSE
                 ForEachSend(Tail(order), failing,
                     [acc EXCEPT !.attempted = @ \cup {client},
                                 !.delivered = @ \cup {client},
                                 !.sentCount = @ + 1])
         ELSE ForEachSend(Tail(order), failing, acc)

\* A send call recorded on a connection: the welcome, or the envelope built
\* from the n-th message the broker delivered.
WelcomeFrame == [kind |-> "welcome", n |-> 0]
\* Variant of EnvelopeFrame: every send carries the first message again.
StaleFrame(n) == [kind |-> "envelope", n |-> 1]

EnvelopeFrame(n) == [kind |-> "envelope", n |-> n]

----------------------------------------------------------------------------
(* The HTTP handler (lines 67-81)                                          *)

Methods == {"GET", "POST"}
Urls == {"/health", "/health?full=1", "/"}

NoRequest == [method |-> "none", url |-> "none"]
NoResponse ==
    [status |-> 0, body |-> "none", mqtt |-> FALSE, ws_clients |-> 0,
     timestamp |-> "never"]

\* Variant of HttpHandler: only the sockets in state OPEN are counted.
HttpHandlerOpenOnly(req, now) ==
    IF req.url = "/health" THEN
        [status |-> 200, body |-> "healthy", mqtt |-> mqttConnected,
         ws_clients |-> Cardinality({c \in clients : readyState[c] = "OPEN"}),
         timestamp |-> now]
    ELSE
        [status |-> 404, body |-> "Not Found", mqtt |-> FALSE,
         ws_clients |-> 0, timestamp |-> "never"]

\* Variant of HttpHandler: the route also requires the method GET.
HttpHandlerGetOnly(req, now) ==
    IF req.url = "/health" /\ req.method = "GET" THEN
        [status |-> 200, body |-> "healthy", mqtt |-> mqttConnected,
         ws_clients |-> Cardinality(clients), timestamp |-> now]
    ELSE
        [status |-> 404, body |-> "Not Found", mqtt |-> FALSE,
         ws_clients |-> 0, timestamp |-> "never"]

\* if (req.url === '/health') the health body with 200, else 404 (the
\* method is not looked at).
HttpHandler(req, now) ==
    IF req.url = "/health" THEN
        [status |-> 200, body |-> "healthy", mqtt |-> mqttConnected,
         ws_clients |-> Cardinality(clients), timestamp |-> now]
    ELSE
        [status |-> 404, body |-> "Not Found", mqtt |-> FALSE,
         ws_clients |-> 0, timestamp |-> "never"]

----------------------------------------------------------------------------
(* Initial state: the module has been loaded, nothing has connected yet.   *)

NoMsg == [topic |-> <<>>, payload |-> ""]

Init ==
    /\ clientCount = 0
    /\ clients = {}
    /\ readyState = [c \in Ids |-> "NONE"]
    /\ sent = [c \in Ids |-> <<>>]
    /\ mqttConnected = FALSE
    /\ accepting = TRUE
    /\ phase = "running"
    /\ shutdownSteps = <<>>
    /\ msgCount = 0
    /\ assignedIds = <<>>
    /\ exitCode = <<>>
    /\ lastEvent = "init"
    /\ mqttMsg = NoMsg
    /\ wsMessage = NoEnvelope
    /\ bcast = NoBroadcast
    /\ subRequests = {}
    /\ subErrors = {}
    /\ httpReq = NoRequest
    /\ httpRes = NoResponse
    /\ uncaught = FALSE

\* The outputs of a step that handles no broker message and no request.
Quiet(event) ==
    /\ lastEvent' = event
    /\ mqttMsg' = NoMsg
    /\ wsMessage' = NoEnvelope
    /\ bcast' = NoBroadcast
    /\ subRequests' = {}
    /\ subErrors' = {}
    /\ httpReq' = NoRequest
    /\ httpRes' = NoResponse

----------------------------------------------------------------------------
(* WebSocket connections                                                   *)

\* Variant of Welcome: the connection handler sends nothing.
NoWelcome == <<>>

\* The welcome message is the first send issued on a new connection.
Welcome == <<WelcomeFrame>>

\* Variant of NextClientId: the id is the number of tracked sockets.
NextClientIdFromSize(count, tracked) == Cardinality(tracked) + 1

\* const clientId = ++clientCount (line 91)
NextClientId(count, tracked) == count + 1

\* Variant of UncaughtException: the exception ends the process.
UncaughtExits(running) == "exited"

\* process.on('uncaughtException') (lines 216-218): the exception is logged
\* and the process keeps the phase it is in.
UncaughtException(running) == running

\* wss.on('connection') (lines 90-123).  The server has added the socket to
\* wss.clients, in state OPEN, before it emits the event.  An exception of
\* the welcome send leaves the handler and reaches the uncaughtException
\* handler, which logs it.
Connection(welcomeThrows) ==
    /\ phase # "exited"
    /\ accepting
    /\ clientCount < MaxClients
    /\ LET clientId == NextClientId(clientCount, clients) IN
       /\ clientCount' = clientId
       /\ assignedIds' = Append(assignedIds, clientId)
       /\ clients' = clients \cup {clientId}
       /\ readyState' = [readyState EXCEPT ![clientId] = "OPEN"]
       /\ sent' = [sent EXCEPT ![clientId] = Welcome]
    /\ uncaught' = welcomeThrows
    /\ phase' = IF welcomeThrows THEN UncaughtException(phase) ELSE phase
    /\ Quiet("connection")
    /\ UNCHANGED <<mqttConnected, accepting, shutdownSteps, msgCount,
                   exitCode>>

\* The peer starts the closing handshake: the socket is CLOSING until the
\* transport is closed.  No handler of the file runs.
WsClosing(c) ==
    /\ phase # "exited"
    /\ c \in clients
    /\ readyState[c] = "OPEN"
    /\ readyState' = [readyState EXCEPT ![c] = "CLOSING"]
    /\ uncaught' = FALSE
    /\ Quiet("ws_closing")
    /\ UNCHANGED <<clientCount, clients, sent, mqttConnected, accepting,
                   phase, shutdownSteps, msgCount, assignedIds, exitCode>>

\* Variant of CloseHandler: the handler gives the id back to the counter.
CloseHandlerDecrement(count) == count - 1

\* What the close and error handlers (lines 115-122) do to clientCount:
\* they log and leave it alone.
CloseHandler(count) == count

\* ws.on('error') (lines 120-122): the socket is CLOSING when the event is
\* emitted; the handler logs.
WsError(c) ==
    /\ phase # "exited"
    /\ c \in clients
    /\ readyState' = [readyState EXCEPT ![c] = "CLOSING"]
    /\ clientCount' = CloseHandler(clientCount)
    /\ uncaught' = FALSE
    /\ Quiet("ws_error")
    /\ UNCHANGED <<clients, sent, mqttConnected, accepting, phase,
                   shutdownSteps, msgCount, assignedIds, exitCode>>

\* ws.on('close') (lines 115-118): the transport is closed, the server has
\* removed the socket from wss.clients; the handler logs.
WsClose(c) ==
    /\ phase # "exited"
    /\ c \in clients
    /\ readyState' = [readyState EXCEPT ![c] = "CLOSED"]
    /\ clients' = clients \ {c}
    /\ clientCount' = CloseHandler(clientCount)
    /\ uncaught' = FALSE
    /\ Quiet("ws_close")
    /\ UNCHANGED <<sent, mqttConnected, accepting, phase, shutdownSteps,
                   msgCount, assignedIds, exitCode>>

\* A close or error event on a connection that is already closed: the
\* socket is no longer tracked, the handler (lines 115-122) logs.
WsLate(c, event) ==
    /\ phase # "exited"
    /\ readyState[c] = "CLOSED"
    /\ clientCount' = CloseHandler(clientCount)
    /\ uncaught' = FALSE
    /\ Quiet(IF event = "close" THEN "ws_late_close" ELSE "ws_late_error")
    /\ UNCHANGED <<clients, readyState, sent, mqttConnected, accepting,
                   phase, shutdownSteps, msgCount, assignedIds, exitCode>>

\* Variant of ClientMessageSends: the handler echoes to the client.
ClientMessageEcho(c, message) == <<[kind |-> "echo", n |-> 0]>>

\* The sends the client-message handler issues on the connection: none.
ClientMessageSends(c, message) == <<>>

\* ws.on('message') (lines 105-113): the text is parsed and logged, a parse
\* error is caught and logged.
ClientMessage(c, message) ==
    /\ phase # "exited"
    /\ c \in clients
    /\ readyState[c] = "OPEN"
    /\ sent' = [sent EXCEPT ![c] = @ \o ClientMessageSends(c, message)]
    /\ uncaught' = FALSE
    /\ Quiet(IF JsonParse(message).threw THEN "ws_message_error"
                                         ELSE "ws_message")
    /\ UNCHANGED <<clientCount, clients, readyState, mqttConnected,
                   accepting, phase, shutdownSteps, msgCount, assignedIds,
                   exitCode>>

----------------------------------------------------------------------------
(* Broker session                                                          *)

Patterns == {TOPIC_MOVEMENT, TOPIC_HEARTBEAT, TOPIC_STATUS}

\* Variant of Subscribe: each subscribe is issued from the callback of the
\* one before, when that one succeeded.
SubscribeChained(errors) ==
    {TOPIC_MOVEMENT}
      \cup (IF TOPIC_MOVEMENT \in errors THEN {} ELSE {TOPIC_HEARTBEAT})
      \cup (IF {TOPIC_MOVEMENT, TOPIC_HEARTBEAT} \cap errors # {}
            THEN {} ELSE {TOPIC_STATUS})

\* The three subscribe calls of the connect handler (lines 35-51).  errors
\* are the patterns whose callback gets an error: the callback only skips
\* its log line.
Subscribe(errors) == {TOPIC_MOVEMENT, TOPIC_HEARTBEAT, TOPIC_STATUS}

\* mqttClient.on('connect') (lines 31-52), on the first connect and on every
\* reconnect.
MqttConnect(errors) ==
    /\ phase = "running"
    /\ ~mqttConnected
    /\ mqttConnected' = TRUE
    /\ lastEvent' = "mqtt_connect"
    /\ subRequests' = Subscribe(errors)
    /\ subErrors' = errors
    /\ mqttMsg' = NoMsg
    /\ wsMessage' = NoEnvelope
    /\ bcast' = NoBroadcast
    /\ httpReq' = NoRequest
    /\ httpRes' = NoResponse
    /\ uncaught' = FALSE
    /\ UNCHANGED <<clientCount, clients, readyState, sent, accepting, phase,
                   shutdownSteps, msgCount, assignedIds, exitCode>>

\* mqttClient.on('offline') (lines 58-60): the session is lost; the client
\* reconnects by itself (reconnectPeriod, line 28).
MqttOffline ==
    /\ phase = "running"
    /\ mqttConnected
    /\ mqttConnected' = FALSE
    /\ uncaught' = FALSE
    /\ Quiet("mqtt_offline")
    /\ UNCHANGED <<clientCount, clients, readyState, sent, accepting, phase,
                   shutdownSteps, msgCount, assignedIds, exitCode>>

\* mqttClient.on('error') (lines 54-56): the error is logged.
MqttError ==
    /\ phase # "exited"
    /\ uncaught' = FALSE
    /\ Quiet("mqtt_error")
    /\ UNCHANGED <<clientCount, clients, readyState, sent, mqttConnected,
                   accepting, phase, shutdownSteps, msgCount, assignedIds,
                   exitCode>>

\* Variant of HandlerRaises: a parse error leaves the handler.
RaisesOnParseError(env, loop) == ~env.built

\* Whether an exception leaves the message handler: the catch of lines
\* 174-178 takes the parse error and the error of a send alike.
HandlerRaises(env, loop) == FALSE

\* mqttClient.on('message') (lines 126-179).  Everything the handler does is
\* inside one try block whose catch logs.
MqttMessage(topic, msgString, now, failing) ==
    /\ phase # "exited"
    /\ mqttConnected
    /\ msgCount < MaxMsgs
    /\ msgCount' = msgCount + 1
    /\ lastEvent' = "mqtt_message"
    /\ mqttMsg' = [topic |-> topic, payload |-> msgString]
    /\ LET env == Classify(topic, msgString, now)
           loop == IF env.built
                   THEN ForEachSend(InsertionOrder(clients), failing,
                                    NoBroadcast)
                   ELSE NoBroadcast
       IN  /\ wsMessage' = env
           /\ bcast' = loop
           /\ sent' = [c \in Ids |->
                         IF c \in loop.attempted
                         THEN Append(sent[c], EnvelopeFrame(msgCount + 1))
                         ELSE sent[c]]
           /\ uncaught' = HandlerRaises(env, loop)
           /\ phase' = IF HandlerRaises(env, loop)
                       THEN UncaughtException(phase) ELSE phase
    /\ subRequests' = {}
    /\ subErrors' = {}
    /\ httpReq' = NoRequest
    /\ httpRes' = NoResponse
    /\ UNCHANGED <<clientCount, clients, readyState, mqttConnected,
                   accepting, shutdownSteps, assignedIds, exitCode>>

----------------------------------------------------------------------------
(* HTTP                                                                    *)

\* http.createServer handler (lines 67-81)
HttpRequest(method, url, now) ==
    /\ phase # "exited"
    /\ lastEvent' = "http"
    /\ httpReq' = [method |-> method, url |-> url]
    /\ httpRes' = HttpHandler([method |-> method, url |-> url], now)
    /\ mqttMsg' = NoMsg
    /\ wsMessage' = NoEnvelope
    /\ bcast' = NoBroadcast
    /\ subRequests' = {}
    /\ subErrors' = {}
    /\ uncaught' = FALSE
    /\ UNCHANGED <<clientCount, clients, readyState, sent, mqttConnected,
                   accepting, phase, shutdownSteps, msgCount, assignedIds,
                   exitCode>>

----------------------------------------------------------------------------
(* Shutdown                                                                *)

\* Variant of CloseRequested: close() leaves the socket as it is.
CloseIgnored(state) == state

\* client.close() (line 201): an OPEN socket starts the closing handshake.
CloseRequested(state) == IF state = "OPEN" THEN "CLOSING" ELSE state

\* Variant of ShutdownOrder: the server stops accepting before the sockets
\* are closed.
ShutdownOrderAcceptFirst == <<"stop_accepting", "close_clients", "broker_end">>

\* The calls of the SIGINT handler in the order of the code: close() on the
\* tracked sockets (200-202), wss.close() (204-206), mqttClient.end()
\* (209-212).
ShutdownOrder == <<"close_clients", "stop_accepting", "broker_end">>

\* process.on('SIGINT') (lines 196-213).  A repeated signal repeats the
\* calls, which change nothing more; shutdownSteps keeps the first run.
Sigint ==
    /\ phase # "exited"
    /\ readyState' = [c \in Ids |->
                        IF c \in clients THEN CloseRequested(readyState[c])
                                         ELSE readyState[c]]
    /\ accepting' = FALSE
    /\ phase' = "ending"
    /\ shutdownSteps' = IF phase = "running" THEN ShutdownOrder
                                             ELSE shutdownSteps
    /\ uncaught' = FALSE
    /\ Quiet("sigint")
    /\ UNCHANGED <<clientCount, clients, sent, mqttConnected, msgCount,
                   assignedIds, exitCode>>

\* Variant of ExitCall: the process exits with a failure code.
ExitCallFailure == <<1>>

\* process.exit(0) (line 211)
ExitCall == <<0>>

\* The callback of mqttClient.end (lines 209-212): the broker session is
\* closed and the process exits.
MqttEnd ==
    /\ phase = "ending"
    /\ mqttConnected' = FALSE
    /\ phase' = "exited"
    /\ exitCode' = ExitCall
    /\ shutdownSteps' = Append(shutdownSteps, "exit")
    /\ uncaught' = FALSE
    /\ Quiet("exit")
    /\ UNCHANGED <<clientCount, clients, readyState, sent, accepting,
                   msgCount, assignedIds>>

----------------------------------------------------------------------------

Next ==
    \/ \E welcomeThrows \in BOOLEAN : Connection(welcomeThrows)
    \/ \E c \in Ids : WsClosing(c)
    \/ \E c \in Ids : WsError(c)
    \/ \E c \in Ids : WsClose(c)
    \/ \E c \in Ids, event \in {"close", "error"} : WsLate(c, event)
    \/ \E c \in Ids, message \in Payloads : ClientMessage(c, message)
    \/ \E errors \in SUBSET Patterns : MqttConnect(errors)
    \/ MqttOffline
    \/ MqttError
    \/ \E topic \in Topics, msgString \in Payloads, now \in Times,
          failing \in {0} \cup {c \in clients : readyState[c] = "OPEN"} :
            MqttMessage(topic, msgString, now, failing)
    \/ \E method \in Methods, url \in Urls, now \in Times :
            HttpRequest(method, url, now)
    \/ Sigint
    \/ MqttEnd

Spec == Init /\ [][Next]_vars

\* The callback of mqttClient.end is eventually called once the shutdown has
\* asked the broker session to end.
FairSpec == Spec /\ WF_vars(MqttEnd)

TypeOK ==
    /\ clientCount \in 0..MaxClients
    /\ clients \subseteq 1..clientCount
    /\ \A c \in Ids :
         /\ c > clientCount => readyState[c] = "NONE" /\ sent[c] = <<>>
         /\ c <= clientCount => readyState[c] \in {"OPEN", "CLOSING", "CLOSED"}
         /\ c \in clients <=> readyState[c] \in {"OPEN", "CLOSING"}
    /\ msgCount \in 0..MaxMsgs
    /\ phase \in {"running", "ending", "exited"}

----------------------------------------------------------------------------
(* Properties                                                              *)

\* The last step handled a broker message.
OnMessage == lastEvent = "mqtt_message"

\* The message of the last step is on the movement or the heartbeat topic.
OnJsonTopic == mqttMsg.topic \in {TOPIC_MOVEMENT, TOPIC_HEARTBEAT}

\* The message of the last step is under the prefix iot/status/.
OnStatusTopic ==
    /\ Len(mqttMsg.topic) >= 3
    /\ SubSeq(mqttMsg.topic, 1, 2) = <<"iot", "status">>

\* The payload of the message of the last step is well-formed JSON.
WellFormedPayload == ~JsonParse(mqttMsg.payload).threw

\* The connections in state OPEN.
OpenSet == {c \in Ids : readyState[c] = "OPEN"}

\* C1: when a classified message is handled and no send raises, every
\* connection that is OPEN at that moment is sent the envelope built from
\* that message.
C1_BroadcastToAllOpen ==
    (/\ OnMessage
     /\ OnJsonTopic => WellFormedPayload
     /\ bcast.threw = 0)
    => /\ wsMessage.built
       /\ wsMessage.topic = mqttMsg.topic
       /\ \A c \in OpenSet :
            /\ c \in bcast.delivered
            /\ sent[c] # <<>>
            /\ sent[c][Len(sent[c])] = EnvelopeFrame(msgCount)

C1_Witness ==
    /\ OnMessage
    /\ mqttMsg.topic = TOPIC_MOVEMENT
    /\ WellFormedPayload
    /\ bcast.threw = 0
    /\ Cardinality(OpenSet) = 2
    /\ bcast.delivered = OpenSet

\* C2: no send is issued on a connection that has left OPEN (CLOSING or
\* CLOSED), whatever step is taken.
C2_NoSendAfterOpen ==
    [][\A c \in Ids :
          readyState[c] \in {"CLOSING", "CLOSED"} => sent'[c] = sent[c]]_vars

C2_Witness ==
    /\ OnMessage
    /\ bcast.delivered # {}
    /\ \E c \in clients : readyState[c] = "CLOSING" /\ c \notin bcast.attempted

\* C3: when the send to one open connection raises during a broadcast,
\* every other open connection is still sent the envelope, and nothing is
\* raised past the handler.
C3_Isolation ==
    (OnMessage /\ bcast.threw # 0)
    => /\ \A b \in OpenSet \ {bcast.threw} : b \in bcast.delivered
       /\ ~uncaught

\* C4: a well-formed payload on the movement or heartbeat topic gives an
\* envelope of the matching type, with the original topic and the parsed
\* payload as data.
C4_JsonTopics ==
    (OnMessage /\ OnJsonTopic /\ WellFormedPayload)
    => /\ wsMessage.built
       /\ wsMessage.type = (IF mqttMsg.topic = TOPIC_MOVEMENT
                            THEN "movement" ELSE "heartbeat")
       /\ wsMessage.topic = mqttMsg.topic
       /\ wsMessage.data = JsonParse(mqttMsg.payload).value
       /\ mqttMsg.payload = "{\"x\":1,\"y\":2}"
            => wsMessage.data = JObj([x |-> JNum(1), y |-> JNum(2)])

C4_Witness ==
    /\ OnMessage
    /\ mqttMsg.topic = TOPIC_HEARTBEAT
    /\ WellFormedPayload
    /\ wsMessage.type = "heartbeat"
    /\ bcast.delivered # {}

\* C5: a message under the status prefix gives an envelope of type
\* device_status whose data wraps the payload text verbatim, whether or not
\* the text is well-formed JSON.
C5_StatusTopics ==
    (OnMessage /\ OnStatusTopic)
    => /\ wsMessage.built
       /\ wsMessage.type = "device_status"
       /\ wsMessage.topic = mqttMsg.topic
       /\ wsMessage.data = JObj([status |-> JStr(mqttMsg.payload)])

C5_Witness ==
    /\ OnMessage
    /\ OnStatusTopic
    /\ WellFormedPayload
    /\ wsMessage.data = JObj([status |-> JStr("{\"x\":1,\"y\":2}")])
    /\ bcast.delivered # {}

\* C6: a message on any other topic gives an envelope of type unknown whose
\* data wraps the payload text as raw.
C6_OtherTopics ==
    (OnMessage /\ ~OnJsonTopic /\ ~OnStatusTopic)
    => /\ wsMessage.built
       /\ wsMessage.type = "unknown"
       /\ wsMessage.topic = mqttMsg.topic
       /\ wsMessage.data = JObj([raw |-> JStr(mqttMsg.payload)])

C6_Witness ==
    /\ OnMessage
    /\ mqttMsg.topic = <<"iot", "status">>
    /\ wsMessage.type = "unknown"
    /\ bcast.delivered # {}

\* C7 as stated: a malformed payload on the movement or heartbeat topic is
\* degraded to an unknown envelope with the raw text, which is broadcast to
\* the open connections.
C7_Degraded ==
    (OnMessage /\ OnJsonTopic /\ ~WellFormedPayload)
    => /\ wsMessage.built
       /\ wsMessage.type = "unknown"
       /\ wsMessage.data = JObj([raw |-> JStr(mqttMsg.payload)])
       /\ bcast.threw = 0 => OpenSet \subseteq bcast.attempted

\* C7 amended: a malformed payload on the movement or heartbeat topic is
\* dropped: no envelope is built, nothing is sent on any connection, and
\* the error is caught inside the handler.
C7_Dropped ==
    (OnMessage /\ OnJsonTopic /\ ~WellFormedPayload)
    => /\ ~wsMessage.built
       /\ bcast.attempted = {}
       /\ \A c \in Ids : \A i \in 1..Len(sent[c]) : sent[c][i].n # msgCount
       /\ ~uncaught

C7_Witness ==
    /\ OnMessage
    /\ mqttMsg.topic = TOPIC_MOVEMENT
    /\ mqttMsg.payload = "not-json"
    /\ OpenSet # {}
    /\ bcast.attempted = {}

\* C8 as stated: /health is answered 200 and healthy, with the broker flag
\* and the number of connections in state OPEN.
C8_HealthCountsOpen ==
    (lastEvent = "http" /\ httpReq.url = "/health")
    => /\ httpRes.status = 200
       /\ httpRes.body = "healthy"
       /\ httpRes.mqtt = mqttConnected
       /\ httpRes.ws_clients = Cardinality(OpenSet)

\* C8 amended: /health is answered 200 and healthy, with the broker flag
\* and the number of connections in state OPEN or CLOSING (the sockets the
\* server still tracks); only closed connections are not counted.
C8_HealthCountsTracked ==
    (lastEvent = "http" /\ httpReq.url = "/health")
    => /\ httpRes.status = 200
       /\ httpRes.body = "healthy"
       /\ httpRes.mqtt = mqttConnected
       /\ httpRes.ws_clients =
            Cardinality({c \in Ids : readyState[c] \in {"OPEN", "CLOSING"}})

C8_Witness ==
    /\ lastEvent = "http"
    /\ httpReq.url = "/health"
    /\ ~mqttConnected
    /\ httpRes.mqtt = FALSE
    /\ httpRes.ws_clients = 2
    /\ \E c \in Ids : readyState[c] = "CLOSING"
    /\ \E c \in Ids : readyState[c] = "OPEN"

\* C9 as stated: only GET /health is answered 200; every other request,
\* another method on /health included, is answered 404.
C9_OnlyGetHealth ==
    lastEvent = "http"
    => httpRes.status = (IF httpReq.method = "GET" /\ httpReq.url = "/health"
                         THEN 200 ELSE 404)

\* C9 amended: a request is answered 200 exactly when its URL is /health,
\* whatever its method; every request for another URL is answered 404.
C9_OnlyHealthUrl ==
    lastEvent = "http"
    => httpRes.status = (IF httpReq.url = "/health" THEN 200 ELSE 404)

C9_Witness ==
    /\ lastEvent = "http"
    /\ httpReq.method = "POST"
    /\ httpReq.url = "/health"
    /\ httpRes.status = 200
    /\ clients # {}
    /\ mqttConnected

\* C10: on every accepted connection the welcome is the first send issued,
\* it is issued by the accept itself, and it is issued once: every later
\* send on the connection is a broadcast envelope.
C10_WelcomeFirst ==
    /\ \A c \in Ids :
         IF c <= clientCount
         THEN /\ sent[c] # <<>>
              /\ sent[c][1] = WelcomeFrame
              /\ \A i \in 2..Len(sent[c]) : sent[c][i].kind = "envelope"
         ELSE sent[c] = <<>>
    /\ lastEvent = "connection" => sent[clientCount] = <<WelcomeFrame>>

C10_Witness ==
    /\ clientCount = 2
    /\ Len(sent[1]) = 3
    /\ Len(sent[2]) = 2
    /\ sent[1][1] = WelcomeFrame
    /\ sent[2][1] = WelcomeFrame

----------------------------------------------------------------------------
(* Properties of the connection registry, the shutdown and the broker      *)
(* session                                                                 *)

\* C11: the ids handed out at accept are strictly increasing, so no two
\* connections get the same id and the id of a closed connection is not
\* handed out again.
C11_IdsIncrease ==
    /\ \A i, k \in DOMAIN assignedIds :
         i < k => assignedIds[i] < assignedIds[k]
    /\ lastEvent = "connection"
         => /\ assignedIds # <<>>
            /\ assignedIds[Len(assignedIds)] = clientCount
            /\ readyState[clientCount] = "OPEN"

C11_Witness ==
    /\ lastEvent = "connection"
    /\ assignedIds = <<1, 2>>
    /\ readyState[1] = "CLOSED"
    /\ readyState[2] = "OPEN"

\* C12: a close or error event for a connection that is already closed
\* changes nothing (tracked sockets, id counter, state and sends of every
\* connection) and raises no error.
C12_LateCloseNoOp ==
    [][lastEvent' \in {"ws_late_close", "ws_late_error"}
         => /\ UNCHANGED <<clients, clientCount, assignedIds, readyState,
                           sent, mqttConnected, accepting, phase>>
            /\ ~uncaught']_vars

C12_Witness ==
    /\ lastEvent = "ws_late_close"
    /\ readyState[1] = "CLOSED"
    /\ readyState[2] = "OPEN"
    /\ clients = {2}

\* C13 as stated: the shutdown first stops accepting, then requests close
\* on the open connections, then ends the broker session, and exits last.
C13_AcceptFirst ==
    phase # "running"
    => /\ Len(shutdownSteps) >= 3
       /\ SubSeq(shutdownSteps, 1, 3) =
            <<"stop_accepting", "close_clients", "broker_end">>
       /\ phase = "exited" <=> shutdownSteps[Len(shutdownSteps)] = "exit"

\* C13 amended: the shutdown first requests close on the open connections,
\* then stops accepting (in the same handler run, so that afterwards no
\* connection is OPEN and none is accepted), then ends the broker session,
\* and the process exits last.
C13_CloseFirst ==
    /\ phase = "running" => shutdownSteps = <<>>
    /\ phase # "running"
       => /\ Len(shutdownSteps) >= 3
          /\ SubSeq(shutdownSteps, 1, 3) =
               <<"close_clients", "stop_accepting", "broker_end">>
          /\ ~accepting
          /\ OpenSet = {}
          /\ phase = "exited" <=> shutdownSteps[Len(shutdownSteps)] = "exit"
          /\ Len(shutdownSteps) <= 4

C13_Witness ==
    /\ phase = "exited"
    /\ Len(shutdownSteps) = 4
    /\ Cardinality(clients) = 2

\* C14: once the shutdown has started the process eventually exits, given
\* that the broker session eventually ends; it exits with code 0, and only
\* from the callback of the broker disconnect.
C14_ExitsAfterAck ==
    /\ [](phase # "exited" => exitCode = <<>>)
    /\ [](phase = "exited"
            => /\ exitCode = <<0>>
               /\ ~mqttConnected
               /\ Len(shutdownSteps) = 4
               /\ shutdownSteps[3] = "broker_end"
               /\ shutdownSteps[4] = "exit")
    /\ (phase = "ending") ~> (phase = "exited")

C14_Witness ==
    /\ phase = "exited"
    /\ exitCode = <<0>>
    /\ lastEvent = "exit"
    /\ msgCount > 0

\* C15: every connect of the broker session, the first and each reconnect,
\* issues the three subscribe requests, whichever of them fail.
C15_SubscribeAll ==
    lastEvent = "mqtt_connect"
    => /\ mqttConnected
       /\ subRequests = { <<"vision", "BACK-BENCHERS", "movement">>,
                          <<"vision", "BACK-BENCHERS", "heartbeat">>,
                          <<"iot", "status", "#">> }

C15_Witness ==
    /\ lastEvent = "mqtt_connect"
    /\ msgCount > 0
    /\ subErrors = {TOPIC_MOVEMENT}
    /\ Cardinality(subRequests) = 3

\* C16: a malformed payload on the movement or heartbeat topic raises
\* nothing out of the handler and leaves the tracked sockets, their states,
\* the id counter and the broker session as they were; the next classified
\* message is then sent to every open connection.
C16_MalformedHarmless ==
    [][/\ (OnMessage' /\ OnJsonTopic' /\ ~WellFormedPayload')
          => /\ UNCHANGED <<clients, readyState, clientCount, assignedIds,
                            mqttConnected, accepting, phase>>
             /\ ~uncaught'
       /\ (/\ OnMessage /\ OnJsonTopic /\ ~WellFormedPayload
           /\ OnMessage' /\ (OnJsonTopic' => WellFormedPayload')
           /\ bcast'.threw = 0)
          => /\ wsMessage'.built
             /\ \A c \in Ids : readyState[c] = "OPEN" => c \in bcast'.delivered
      ]_vars

C16_Witness ==
    /\ OnMessage
    /\ mqttMsg.topic = TOPIC_HEARTBEAT
    /\ ~WellFormedPayload
    /\ Cardinality(OpenSet) = 2
    /\ mqttConnected
    /\ msgCount < MaxMsgs
    /\ ~uncaught

\* C17: the process leaves the running phase only through the SIGINT
\* handler and exits only from the shutdown; an error of the broker, of a
\* payload, of a client transport or of a send never ends it.
C17_OnlySigintEnds ==
    /\ phase # "running" => Len(shutdownSteps) >= 3
    /\ lastEvent \in {"mqtt_error", "mqtt_offline", "ws_error",
                      "ws_message_error", "mqtt_message", "connection"}
         => phase # "exited"
    /\ exitCode # <<>> => shutdownSteps[Len(shutdownSteps)] = "exit"

C17_Witness ==
    /\ lastEvent = "connection"
    /\ uncaught
    /\ phase = "running"
    /\ exitCode = <<>>

\* C18: a message from a client, well-formed or not, changes no state of
\* the server and makes it send nothing.
C18_ClientMessageLogOnly ==
    [][lastEvent' \in {"ws_message", "ws_message_error"}
         => /\ UNCHANGED <<clients, clientCount, assignedIds, readyState,
                           sent, mqttConnected, accepting, phase, msgCount>>
            /\ bcast' = NoBroadcast
            /\ subRequests' = {}
            /\ ~uncaught']_vars

C18_Witness ==
    /\ lastEvent = "ws_message_error"
    /\ Cardinality(OpenSet) = 2
    /\ mqttConnected

\* C19: on every connection the envelopes are sent in the order in which
\* the broker delivered their messages, each at most once.
C19_BrokerOrder ==
    /\ \A c \in Ids : \A i, k \in DOMAIN sent[c] :
         i < k => sent[c][i].n < sent[c][k].n
    /\ OnMessage
         => \A c \in bcast.attempted : sent[c][Len(sent[c])].n = msgCount

C19_Witness ==
    /\ OnMessage
    /\ Cardinality(bcast.delivered) = 2
    /\ \A c \in bcast.delivered :
         /\ Len(sent[c]) = 3
         /\ sent[c][2].n = 1
         /\ sent[c][3].n = 2

\* C20: after the SIGINT handler has run no connection is OPEN and none is
\* accepted, so a broker message handled before the exit is sent to nobody
\* and no welcome is sent.
C20_SilentAfterSigint ==
    phase # "running"
    => /\ ~accepting
       /\ OpenSet = {}
       /\ lastEvent # "connection"
       /\ OnMessage => bcast.attempted = {}

C20_Witness ==
    /\ phase = "ending"
    /\ OnMessage
    /\ wsMessage.built
    /\ Cardinality(clients) = 2
    /\ bcast.attempted = {}

====
